---- MODULE Spec2Model ----
(***************************************************************************)
(* Model of actual_to_gsheets.py: the one-shot job that reads groups,      *)
(* categories, budgets, transactions and accounts from the Ledger Source   *)
(* (Actual Budget) and republishes them as tabs of a spreadsheet (the      *)
(* Sheet Sink).                                                            *)
(*                                                                         *)
(* Money.  cents_to_decimal gives Decimal(cents) / Decimal(100); with the  *)
(* 28 significant digits of Python's default context that quotient is      *)
(* exact for every amount used here, so a Decimal is represented by its    *)
(* exact number of hundredths (an integer) and Decimal + and - are integer *)
(* + and -.  float(Decimal), float + float, float - float and the "%.2f"   *)
(* rendering are IEEE-754 binary64 operations and are modelled bit for bit *)
(* on arbitrary-precision naturals (TLC's own integers have 32 bits).      *)
(***************************************************************************)
EXTENDS Integers, Sequences, FiniteSets, TLC

(***************************************************************************)
(* Arbitrary-precision naturals: little-endian sequences of 20-bit limbs,  *)
(* without leading zero limbs (zero is << >>).                             *)
(***************************************************************************)
LimbBits == 20
Base == 2 ^ LimbBits

RECURSIVE BigNorm(_)
BigNorm(a) ==
    IF a = << >> THEN << >>
    ELSE IF a[Len(a)] = 0 THEN BigNorm(SubSeq(a, 1, Len(a) - 1))
    ELSE a

BigOfInt(n) ==
    BigNorm(<< n % Base, n \div Base >>)

Limb(a, i) == IF i <= Len(a) THEN a[i] ELSE 0

MaxOf(x, y) == IF x >= y THEN x ELSE y

MinOf(x, y) == IF x <= y THEN x ELSE y

RECURSIVE BigAddFrom(_, _, _, _)
BigAddFrom(a, b, i, carry) ==
    IF i > MaxOf(Len(a), Len(b))
    THEN (IF carry = 0 THEN << >> ELSE << carry >>)
    ELSE << (Limb(a, i) + Limb(b, i) + carry) % Base >>
         \o BigAddFrom(a, b, i + 1, (Limb(a, i) + Limb(b, i) + carry) \div Base)

BigAdd(a, b) == BigAddFrom(a, b, 1, 0)

\* a - b for a >= b
RECURSIVE BigSubFrom(_, _, _, _)
BigSubFrom(a, b, i, borrow) ==
    IF i > Len(a) THEN << >>
    ELSE IF Limb(a, i) - Limb(b, i) - borrow < 0
    THEN << Limb(a, i) - Limb(b, i) - borrow + Base >> \o BigSubFrom(a, b, i + 1, 1)
    ELSE << Limb(a, i) - Limb(b, i) - borrow >> \o BigSubFrom(a, b, i + 1, 0)

BigSub(a, b) == BigNorm(BigSubFrom(a, b, 1, 0))

\* -1, 0, 1 as a is below, equal to, above b
RECURSIVE BigCmpFrom(_, _, _)
BigCmpFrom(a, b, i) ==
    IF i = 0 THEN 0
    ELSE IF a[i] < b[i] THEN -1
    ELSE IF a[i] > b[i] THEN 1
    ELSE BigCmpFrom(a, b, i - 1)

BigCmp(a, b) ==
    IF Len(a) < Len(b) THEN -1
    ELSE IF Len(a) > Len(b) THEN 1
    ELSE BigCmpFrom(a, b, Len(a))

\* | a - b |
BigAbsDiff(a, b) == IF BigCmp(a, b) >= 0 THEN BigSub(a, b) ELSE BigSub(b, a)

\* a * k for 0 <= k <= 2^10
RECURSIVE BigMulFrom(_, _, _, _)
BigMulFrom(a, k, i, carry) ==
    IF i > Len(a)
    THEN (IF carry = 0 THEN << >> ELSE << carry >>)
    ELSE << (a[i] * k + carry) % Base >>
         \o BigMulFrom(a, k, i + 1, (a[i] * k + carry) \div Base)

BigMulSmall(a, k) == BigNorm(BigMulFrom(a, k, 1, 0))

\* quotient (limbs below i still to come) and remainder of a by k, 1 <= k <= 2^10
BigDivPut(rest, digit) == [q |-> rest.q \o << digit >>, r |-> rest.r]

RECURSIVE BigDivFrom(_, _, _, _)
BigDivFrom(a, k, i, rem) ==
    IF i = 0 THEN [q |-> << >>, r |-> rem]
    ELSE BigDivPut(BigDivFrom(a, k, i - 1, (rem * Base + a[i]) % k),
                   (rem * Base + a[i]) \div k)

BigDivNorm(d) == [q |-> BigNorm(d.q), r |-> d.r]

BigDivSmall(a, k) == BigDivNorm(BigDivFrom(a, k, Len(a), 0))

Zeros(n) == [i \in 1..n |-> 0]

\* a * 2^k
BigShl(a, k) ==
    IF a = << >> THEN << >>
    ELSE Zeros(k \div LimbBits)
         \o BigMulSmall(BigMulSmall(a, 2 ^ MinOf(k % LimbBits, 10)),
                        2 ^ ((k % LimbBits) - MinOf(k % LimbBits, 10)))

\* floor(a / 2^k)
BigShr(a, k) ==
    BigDivSmall(BigDivSmall(IF k \div LimbBits >= Len(a) THEN << >>
                            ELSE SubSeq(a, (k \div LimbBits) + 1, Len(a)),
                            2 ^ MinOf(k % LimbBits, 10)).q,
                2 ^ ((k % LimbBits) - MinOf(k % LimbBits, 10))).q

RECURSIVE IntBitLen(_)
IntBitLen(n) == IF n = 0 THEN 0 ELSE 1 + IntBitLen(n \div 2)

BigBitLen(a) ==
    IF a = << >> THEN 0
    ELSE (Len(a) - 1) * LimbBits + IntBitLen(a[Len(a)])

BigIsOdd(a) == a # << >> /\ a[1] % 2 = 1

BigOne == << 1 >>

\* q, or q + 1 when the part cut off (c: its comparison with one half) rounds
\* up, ties going to the even neighbour
BigRoundBy(q, c) ==
    IF c > 0 \/ (c = 0 /\ BigIsOdd(q)) THEN BigAdd(q, BigOne) ELSE q

BigRoundQuotient(a, k, q) ==
    BigRoundBy(q, BigCmp(BigSub(a, BigShl(q, k)), BigShl(BigOne, k - 1)))

\* a / 2^k rounded to the nearest integer, ties to even (k >= 0)
BigShrRound(a, k) ==
    IF k = 0 THEN a ELSE BigRoundQuotient(a, k, BigShr(a, k))

\* the value of a natural below 2^31 held as limbs
RECURSIVE BigToIntFrom(_, _)
BigToIntFrom(a, i) ==
    IF i > Len(a) THEN 0 ELSE a[i] + Base * BigToIntFrom(a, i + 1)

BigToInt(a) == BigToIntFrom(a, 1)

(***************************************************************************)
(* IEEE-754 binary64 values (Python's float) in the range money takes:     *)
(* zero, or sign, a 53-bit significand m and an exponent e with value      *)
(* m * 2^e.  Every operation computes the exact result and rounds it once  *)
(* to nearest, ties to even.                                               *)
(***************************************************************************)
MantBits == 53

FloatZero == [neg |-> FALSE, m |-> << >>, e |-> 0]

\* r * 2^e for a rounded significand r, which rounding may have carried to
\* one bit more
FloatCarry(neg, r, e) ==
    IF BigBitLen(r) > MantBits
    THEN [neg |-> neg, m |-> BigShr(r, 1), e |-> e + 1]
    ELSE [neg |-> neg, m |-> r, e |-> e]

FloatRoundLen(neg, big, e, L) ==
    IF L = 0 THEN FloatZero
    ELSE IF L <= MantBits
    THEN [neg |-> neg, m |-> BigShl(big, MantBits - L), e |-> e - (MantBits - L)]
    ELSE FloatCarry(neg, BigShrRound(big, L - MantBits), e + (L - MantBits))

\* the binary64 nearest to big * 2^e, with the given sign
FloatRound(neg, big, e) == FloatRoundLen(neg, big, e, BigBitLen(big))

AbsInt(n) == IF n < 0 THEN -n ELSE n

\* a * 2^k / 100 as quotient and remainder
ScaledHundredth(a, k) == BigDivSmall(BigShl(BigOfInt(a), k), 100)

FloatOfScaled(neg, d, k) ==
    FloatRound(neg, BigRoundBy(d.q, IF 2 * d.r > 100 THEN 1
                                    ELSE IF 2 * d.r = 100 THEN 0 ELSE -1), -k)

\* the scale k that gives a * 2^k / 100 its 53 bits is k0 or k0 + 1
FloatOfHundredths(neg, a, k0) ==
    IF BigBitLen(ScaledHundredth(a, k0).q) < MantBits
    THEN FloatOfScaled(neg, ScaledHundredth(a, k0 + 1), k0 + 1)
    ELSE FloatOfScaled(neg, ScaledHundredth(a, k0), k0)

\* float(d) for the Decimal d = cents / 100: the binary64 nearest to it
FloatOfDecimal(cents) ==
    IF cents = 0 THEN FloatZero
    ELSE FloatOfHundredths(cents < 0, AbsInt(cents),
                           (MantBits + 6) - IntBitLen(AbsInt(cents)))

FloatNeg(x) == IF x = FloatZero THEN x ELSE [x EXCEPT !.neg = ~x.neg]

\* x + y for significands X, Y brought to the common exponent e
FloatAddAligned(x, y, X, Y, e) ==
    FloatRound(IF x.neg = y.neg \/ BigCmp(X, Y) >= 0 THEN x.neg ELSE y.neg,
               IF x.neg = y.neg THEN BigAdd(X, Y) ELSE BigAbsDiff(X, Y),
               e)

\* x + y
FloatAdd(x, y) ==
    IF x = FloatZero THEN y
    ELSE IF y = FloatZero THEN x
    ELSE FloatAddAligned(x, y, BigShl(x.m, x.e - MinOf(x.e, y.e)),
                         BigShl(y.m, y.e - MinOf(x.e, y.e)), MinOf(x.e, y.e))

\* x - y
FloatSub(x, y) == FloatAdd(x, FloatNeg(y))

\* sum(...) over a sequence of floats: Python starts from the int 0 and adds
\* left to right
RECURSIVE FloatSumFrom(_, _, _)
FloatSumFrom(xs, i, acc) ==
    IF i > Len(xs) THEN acc ELSE FloatSumFrom(xs, i + 1, FloatAdd(acc, xs[i]))

FloatSum(xs) == FloatSumFrom(xs, 1, FloatZero)

(***************************************************************************)
(* Python str values are sequences of one-character strings; Ord is the    *)
(* code point of a character, which is what str comparison goes by.        *)
(***************************************************************************)
Ord ==
    (" " :> 32) @@ ("!" :> 33) @@ ("#" :> 35) @@ ("$" :> 36) @@ ("%" :> 37)
    @@ ("&" :> 38) @@ ("'" :> 39) @@ ("(" :> 40) @@ (")" :> 41) @@ ("*" :> 42) @@ ("+" :> 43)
    @@ ("," :> 44) @@ ("-" :> 45) @@ ("." :> 46) @@ ("/" :> 47) @@ ("0" :> 48) @@ ("1" :> 49)
    @@ ("2" :> 50) @@ ("3" :> 51) @@ ("4" :> 52) @@ ("5" :> 53) @@ ("6" :> 54) @@ ("7" :> 55)
    @@ ("8" :> 56) @@ ("9" :> 57) @@ (":" :> 58) @@ (";" :> 59) @@ ("<" :> 60) @@ ("=" :> 61)
    @@ (">" :> 62) @@ ("?" :> 63) @@ ("@" :> 64) @@ ("A" :> 65) @@ ("B" :> 66) @@ ("C" :> 67)
    @@ ("D" :> 68) @@ ("E" :> 69) @@ ("F" :> 70) @@ ("G" :> 71) @@ ("H" :> 72) @@ ("I" :> 73)
    @@ ("J" :> 74) @@ ("K" :> 75) @@ ("L" :> 76) @@ ("M" :> 77) @@ ("N" :> 78) @@ ("O" :> 79)
    @@ ("P" :> 80) @@ ("Q" :> 81) @@ ("R" :> 82) @@ ("S" :> 83) @@ ("T" :> 84) @@ ("U" :> 85)
    @@ ("V" :> 86) @@ ("W" :> 87) @@ ("X" :> 88) @@ ("Y" :> 89) @@ ("Z" :> 90) @@ ("[" :> 91)
    @@ ("]" :> 93) @@ ("^" :> 94) @@ ("_" :> 95) @@ ("a" :> 97)
    @@ ("b" :> 98) @@ ("c" :> 99) @@ ("d" :> 100) @@ ("e" :> 101) @@ ("f" :> 102) @@ ("g" :> 103)
    @@ ("h" :> 104) @@ ("i" :> 105) @@ ("j" :> 106) @@ ("k" :> 107) @@ ("l" :> 108) @@ ("m" :> 109)
    @@ ("n" :> 110) @@ ("o" :> 111) @@ ("p" :> 112) @@ ("q" :> 113) @@ ("r" :> 114) @@ ("s" :> 115)
    @@ ("t" :> 116) @@ ("u" :> 117) @@ ("v" :> 118) @@ ("w" :> 119) @@ ("x" :> 120) @@ ("y" :> 121)
    @@ ("z" :> 122) @@ ("{" :> 123) @@ ("|" :> 124) @@ ("}" :> 125) @@ ("~" :> 126)

\* -1, 0, 1 as str a is below, equal to, above str b (lexicographic by code point)
RECURSIVE StrCmpFrom(_, _, _)
StrCmpFrom(a, b, i) ==
    IF i > Len(a) THEN (IF i > Len(b) THEN 0 ELSE -1)
    ELSE IF i > Len(b) THEN 1
    ELSE IF Ord[a[i]] < Ord[b[i]] THEN -1
    ELSE IF Ord[a[i]] > Ord[b[i]] THEN 1
    ELSE StrCmpFrom(a, b, i + 1)

StrCmp(a, b) == StrCmpFrom(a, b, 1)

StrLess(a, b) == StrCmp(a, b) < 0

DigitChar == << "0", "1", "2", "3", "4", "5", "6", "7", "8", "9" >>

\* str(n) for an int n >= 0
RECURSIVE IntToStr(_)
IntToStr(n) ==
    IF n < 10 THEN << DigitChar[n + 1] >>
    ELSE IntToStr(n \div 10) \o << DigitChar[(n % 10) + 1] >>

\* the digits of n >= 0 with a comma before every group of three
RECURSIVE GroupedStr(_)
GroupedStr(n) ==
    IF n < 1000 THEN IntToStr(n)
    ELSE GroupedStr(n \div 1000)
         \o << ",", DigitChar[((n % 1000) \div 100) + 1], DigitChar[((n \div 10) % 10) + 1],
               DigitChar[(n % 10) + 1] >>

\* the value of a float rounded to two decimals as "%.2f" rounds it: the exact
\* binary value, ties to even; the sign is that of the float (-0.00 for a tiny
\* negative value)
RoundToCents(value) ==
    IF value = FloatZero THEN [neg |-> FALSE, cents |-> 0]
    ELSE [neg |-> value.neg,
          cents |-> BigToInt(IF value.e >= 0
                             THEN BigShl(BigMulSmall(value.m, 100), value.e)
                             ELSE BigShrRound(BigMulSmall(value.m, 100), -value.e))]

\* the text of an amount of cents with its sign: $, -, the units grouped by
\* thousands, a point, two digits
CurrencyText(r) ==
    << "$" >> \o (IF r.neg THEN << "-" >> ELSE << >>)
    \o GroupedStr(r.cents \div 100)
    \o << ".", DigitChar[((r.cents \div 10) % 10) + 1], DigitChar[(r.cents % 10) + 1] >>

\* f"${value:,.2f}"
format_currency(value) == CurrencyText(RoundToCents(value))

MonthName ==
    << << "J", "a", "n", "u", "a", "r", "y" >>,
       << "F", "e", "b", "r", "u", "a", "r", "y" >>,
       << "M", "a", "r", "c", "h" >>,
       << "A", "p", "r", "i", "l" >>,
       << "M", "a", "y" >>,
       << "J", "u", "n", "e" >>,
       << "J", "u", "l", "y" >>,
       << "A", "u", "g", "u", "s", "t" >>,
       << "S", "e", "p", "t", "e", "m", "b", "e", "r" >>,
       << "O", "c", "t", "o", "b", "e", "r" >>,
       << "N", "o", "v", "e", "m", "b", "e", "r" >>,
       << "D", "e", "c", "e", "m", "b", "e", "r" >> >>

(***************************************************************************)
(* The str literals of the script.                                         *)
(***************************************************************************)
STR_Empty == << >>
STR_Unknown == << "U", "n", "k", "n", "o", "w", "n" >>
STR_Uncategorized == << "U", "n", "c", "a", "t", "e", "g", "o", "r", "i", "z", "e", "d" >>
STR_OnBudget == << "O", "n", " ", "B", "u", "d", "g", "e", "t" >>
STR_OffBudget == << "O", "f", "f", " ", "B", "u", "d", "g", "e", "t" >>
STR_Open == << "O", "p", "e", "n" >>
STR_Closed == << "C", "l", "o", "s", "e", "d" >>
STR_TOTAL == << "T", "O", "T", "A", "L" >>
STR_Group == << "G", "r", "o", "u", "p" >>
STR_Category == << "C", "a", "t", "e", "g", "o", "r", "y" >>
STR_Budgeted == << "B", "u", "d", "g", "e", "t", "e", "d" >>
STR_ActualSpend == << "A", "c", "t", "u", "a", "l", " ", "S", "p", "e", "n", "d" >>
STR_RunningBalance == << "R", "u", "n", "n", "i", "n", "g", " ", "B", "a", "l", "a", "n", "c", "e" >>
STR_Date == << "D", "a", "t", "e" >>
STR_Account == << "A", "c", "c", "o", "u", "n", "t" >>
STR_Payee == << "P", "a", "y", "e", "e" >>
STR_Description == << "D", "e", "s", "c", "r", "i", "p", "t", "i", "o", "n" >>
STR_Amount == << "A", "m", "o", "u", "n", "t" >>
STR_Cleared == << "C", "l", "e", "a", "r", "e", "d" >>
STR_AccountName == << "A", "c", "c", "o", "u", "n", "t", " ", "N", "a", "m", "e" >>
STR_Balance == << "B", "a", "l", "a", "n", "c", "e" >>
STR_Type == << "T", "y", "p", "e" >>
STR_Status == << "S", "t", "a", "t", "u", "s" >>
STR_AccountBalances == << "A", "c", "c", "o", "u", "n", "t", " ", "B", "a", "l", "a", "n", "c", "e", "s" >>
STR_TotalOnBudget == << "T", "O", "T", "A", "L", " ", "(", "O", "n", " ", "B", "u", "d", "g", "e", "t", ")" >>
STR_TotalOffBudget == << "T", "O", "T", "A", "L", " ", "(", "O", "f", "f", " ", "B", "u", "d", "g", "e", "t", ")" >>
STR_TotalAllOpen == << "T", "O", "T", "A", "L", " ", "(", "A", "l", "l", " ", "O", "p", "e", "n", " ", "A", "c", "c", "o", "u", "n", "t", "s", ")" >>
STR_TransactionsDash == << "T", "r", "a", "n", "s", "a", "c", "t", "i", "o", "n", "s", " ", "-", " " >>
STR_To == << " ", "t", "o", " " >>
\* the one-character str U+2713 (check mark)
STR_CheckMark == << "U+2713" >>

(***************************************************************************)
(* None and optional values: None is << >>, a present value v is << v >>.  *)
(***************************************************************************)
None == << >>
Some(v) == << v >>

(***************************************************************************)
(* list.sort(key=...): a stable sort.  less[i, j] tells whether the key of  *)
(* item i is below the key of item j; an item goes after every item with a *)
(* smaller key and after every earlier item with an equal key.             *)
(***************************************************************************)
SortRank(n, less, i) ==
    1 + Cardinality({ j \in 1..n : less[j, i] \/ (j < i /\ ~less[i, j]) })

list_sort(xs, less) ==
    [p \in 1..Len(xs) |-> xs[CHOOSE i \in 1..Len(xs) : SortRank(Len(xs), less, i) = p]]

Reverse(xs) == [i \in 1..Len(xs) |-> xs[Len(xs) + 1 - i]]

\* list.sort(key=..., reverse=True): CPython reverses the list, sorts it
\* ascending and stable, and reverses the result
list_sort_reverse(xs, less) ==
    Reverse(list_sort(Reverse(xs),
                      [i \in 1..Len(xs), j \in 1..Len(xs) |->
                          less[Len(xs) + 1 - i, Len(xs) + 1 - j]]))

(***************************************************************************)
(* Dates.  A datetime is << year, month, day >>; .date() handed to the     *)
(* Ledger Source is compared with the integer YYYYMMDD a transaction       *)
(* stores.                                                                 *)
(***************************************************************************)
IsLeap(y) == (y % 4 = 0 /\ y % 100 # 0) \/ y % 400 = 0

DaysInMonth(y, m) ==
    IF m = 2 THEN (IF IsLeap(y) THEN 28 + 1 ELSE 28)
    ELSE IF m \in {4, 6, 9, 11} THEN 30
    ELSE 31

DateInt(d) == d[1] * 10000 + d[2] * 100 + d[3]

\* dt + relativedelta(months=k): the month moves, the day is clipped to the
\* length of the month reached
AddMonths(dt, k) ==
    LET idx == dt[1] * 12 + (dt[2] - 1) + k
        y   == idx \div 12
        m   == (idx % 12) + 1
        dim == DaysInMonth(y, m)
    IN  << y, m, IF dt[3] > dim THEN dim ELSE dt[3] >>

\* dt - timedelta(days=1) for the first day of a month
DayBeforeFirst(dt) ==
    LET p == AddMonths(dt, -1)
    IN  << p[1], p[2], DaysInMonth(p[1], p[2]) >>

\* get_month_dates(offset_months), with datetime.now() = now
get_month_dates(now, offset_months) ==
    LET target_month == AddMonths(now, offset_months)
        start_date   == << target_month[1], target_month[2], 1 >>
        end_date     == DayBeforeFirst(AddMonths(start_date, 1))
        month_label  == MonthName[start_date[2]] \o << " " >> \o IntToStr(start_date[1])
    IN  [start_date |-> start_date, end_date |-> end_date, month_label |-> month_label]

(***************************************************************************)
(* Decimal: the value h / 100 is [h |-> h].                                *)
(***************************************************************************)
Decimal(h) == [h |-> h]

\* cents_to_decimal: Decimal(cents) / Decimal(100)
cents_to_decimal(cents) == Decimal(cents)

DecNeg(d) == Decimal(0 - d.h)

DecSub(a, b) == Decimal(a.h - b.h)

\* sum(...) over a sequence of Decimals, left to right from 0
RECURSIVE DecSumFrom(_, _, _)
DecSumFrom(ds, i, acc) ==
    IF i > Len(ds) THEN acc ELSE DecSumFrom(ds, i + 1, Decimal(acc.h + ds[i].h))

DecSum(ds) == DecSumFrom(ds, 1, Decimal(0))

\* float(d) for a Decimal d
float(d) == FloatOfDecimal(d.h)

(***************************************************************************)
(* The Ledger Source.  A session holds what the queries return:            *)
(*   groups        [id, name, is_income, hidden, tombstone]                *)
(*   categories    [id, name, cat_group, hidden, tombstone]                *)
(*   budgets       [category_id, month (YYYYMM), amount (None or cents)]   *)
(*   transactions  [date (YYYYMMDD), amount, category, account, payee,     *)
(*                  notes, cleared, tombstone] and, on records that have   *)
(*                  it, is_parent                                          *)
(*   accounts      [name, balance_current, offbudget, closed, tombstone]   *)
(* A query selects by the arguments the script passes (month, window,      *)
(* category) and keeps the order of the store.  Whether the Ledger Source  *)
(* itself withholds hidden, tombstoned or parent records is left open: the *)
(* script filters on those flags again.                                    *)
(***************************************************************************)
get_category_groups(session) == session.groups

get_budgets(session, month) ==
    SelectSeq(session.budgets, LAMBDA b : b.month = month[1] * 100 + month[2])

get_categories(session) == session.categories

\* get_transactions(session, start_date=, end_date=, category=category)
get_transactions_of(session, start_date, end_date, category) ==
    SelectSeq(session.transactions,
              LAMBDA t : /\ DateInt(start_date) <= t.date
                         /\ t.date <= DateInt(end_date)
                         /\ t.category # None
                         /\ t.category[1].id = category.id)

\* get_transactions(session, start_date=, end_date=, is_parent=False)
get_transactions(session, start_date, end_date) ==
    SelectSeq(session.transactions,
              LAMBDA t : DateInt(start_date) <= t.date /\ t.date <= DateInt(end_date))

get_accounts(session) == session.accounts

\* getattr(t, 'is_parent', False)
getattr_is_parent(t) == IF "is_parent" \in DOMAIN t THEN t.is_parent ELSE FALSE

(***************************************************************************)
(* get_budget_data                                                         *)
(***************************************************************************)
\* budget_map = {b.category_id: b for b in budgets}; budget_map.get(id):
\* the last budget of the category, or None
budget_map_get(budgets, id) ==
    LET hits == { i \in 1..Len(budgets) : budgets[i].category_id = id }
    IN  IF hits = {} THEN None
        ELSE Some(budgets[CHOOSE i \in hits : \A j \in hits : j <= i])

\* x.name or "" (names are strs here; the empty str is falsy)
NameOrEmpty(x) == IF x.name = STR_Empty THEN STR_Empty ELSE x.name

CategoryNameLess(x, y) == StrLess(NameOrEmpty(x), NameOrEmpty(y))

\* categories.sort(key=lambda x: x.name or "")
sort_categories(categories) ==
    list_sort(categories,
              [i \in 1..Len(categories), j \in 1..Len(categories) |->
                  CategoryNameLess(categories[i], categories[j])])

\* the categories of a group sorted by name, hidden and tombstoned ones kept:
\* what the filter is compared with
categories_of_unfiltered(all_categories, group) ==
    sort_categories(SelectSeq(all_categories, LAMBDA cat : cat.cat_group = group.id))

\* the categories of a group: filtered, then sorted by name
categories_of(all_categories, group) ==
    sort_categories(SelectSeq(all_categories,
                              LAMBDA cat : /\ cat.cat_group = group.id
                                           /\ ~cat.hidden
                                           /\ ~cat.tombstone))

\* the sum over every transaction, parents counted: what the exclusion is
\* compared with
sum_with_parents(transactions) ==
    DecSum([i \in 1..Len(transactions) |-> cents_to_decimal(transactions[i].amount)])

\* sum(cents_to_decimal(t.amount) for t in transactions
\*     if not getattr(t, 'is_parent', False))
sum_non_parent(transactions) ==
    LET kept == SelectSeq(transactions, LAMBDA t : ~getattr_is_parent(t))
    IN  DecSum([i \in 1..Len(kept) |-> cents_to_decimal(kept[i].amount)])

\* the sum with the sign the ledger gave it: what normalization is compared with
keep_sign(group, summed) == summed

\* sign normalization: the sum negated unless the group is an income group
normalize_sign(group, summed) ==
    IF ~group.is_income THEN DecNeg(summed) ELSE summed

\* running balance of a category
balance_of(group, budgeted, actual_spend) ==
    IF group.is_income THEN DecSub(actual_spend, budgeted)
    ELSE DecSub(budgeted, actual_spend)

\* the body of the loop over the categories of a group: one row
budget_row(session, budgets, group, category, month_start, month_end) ==
    LET budget       == budget_map_get(budgets, category.id)
        budgeted     == cents_to_decimal(IF budget # None /\ budget[1].amount # None
                                         THEN budget[1].amount[1] ELSE 0)
        transactions == get_transactions_of(session, month_start, month_end, category)
        actual_spend == normalize_sign(group, sum_non_parent(transactions))
        running_balance == balance_of(group, budgeted, actual_spend)
    IN  [group |-> group.name, category |-> category.name,
         budgeted |-> float(budgeted), actual_spend |-> float(actual_spend),
         running_balance |-> float(running_balance), is_income |-> group.is_income]

\* the key of the final sort: (x["group"], x["category"]) compared as a tuple
BudgetKeyLess(x, y) ==
    LET g == StrCmp(x.group, y.group)
    IN  g < 0 \/ (g = 0 /\ StrLess(x.category, y.category))

\* the rows in the order the loop appended them: what the final sort is
\* compared with
keep_order(data) == data

\* data.sort(key=lambda x: (x["group"], x["category"]))
sort_budget_rows(data) ==
    list_sort(data, [i \in 1..Len(data), j \in 1..Len(data) |->
                        BudgetKeyLess(data[i], data[j])])

\* the rows appended while the loop goes over groups[i..]
RECURSIVE budget_rows_from(_, _, _, _, _, _, _)
budget_rows_from(session, category_groups, budgets, all_categories, month_start, month_end, i) ==
    IF i > Len(category_groups) THEN << >>
    ELSE LET group == category_groups[i]
             rest  == budget_rows_from(session, category_groups, budgets, all_categories,
                                       month_start, month_end, i + 1)
         IN  IF group.hidden \/ group.tombstone THEN rest
             ELSE LET categories == categories_of(all_categories, group)
                  IN  [k \in 1..Len(categories) |->
                         budget_row(session, budgets, group, categories[k],
                                    month_start, month_end)] \o rest

get_budget_data(session, month_start, month_end) ==
    LET category_groups == get_category_groups(session)
        budgets         == get_budgets(session, month_start)
        all_categories  == get_categories(session)
    IN  sort_budget_rows(budget_rows_from(session, category_groups, budgets, all_categories,
                                          month_start, month_end, 1))

(***************************************************************************)
(* get_transaction_data                                                    *)
(***************************************************************************)
\* the date of a transaction as text: YYYY-MM-DD when str(date) has eight
\* characters, str(date) itself otherwise
formatted_date(date) ==
    LET date_str == IntToStr(date)
    IN  IF Len(date_str) = 8
        THEN SubSeq(date_str, 1, 4) \o << "-" >> \o SubSeq(date_str, 5, 6)
             \o << "-" >> \o SubSeq(date_str, 7, 8)
        ELSE date_str

\* the row of one transaction
transaction_row(transaction) ==
    [date |-> formatted_date(transaction.date),
     account |-> IF transaction.account # None THEN transaction.account[1].name
                 ELSE STR_Unknown,
     payee |-> IF transaction.payee # None THEN transaction.payee[1].name ELSE STR_Empty,
     category |-> IF transaction.category # None THEN transaction.category[1].name
                  ELSE STR_Uncategorized,
     description |-> IF transaction.notes # None THEN transaction.notes[1] ELSE STR_Empty,
     amount |-> float(cents_to_decimal(transaction.amount)),
     cleared |-> transaction.cleared]

\* the loop's filter: parent and tombstoned transactions are skipped
keep_transaction(transaction) ==
    ~(getattr_is_parent(transaction) \/ transaction.tombstone)

DateKeyLess(x, y) == StrLess(x.date, y.date)

\* an ascending sort reversed afterwards: descending as well, but rows of equal
\* date come out in the opposite of their input order
sort_then_reverse(data) ==
    Reverse(list_sort(data, [i \in 1..Len(data), j \in 1..Len(data) |->
                                DateKeyLess(data[i], data[j])]))

\* data.sort(key=lambda x: x["date"], reverse=True)
sort_transaction_rows(data) ==
    list_sort_reverse(data, [i \in 1..Len(data), j \in 1..Len(data) |->
                                DateKeyLess(data[i], data[j])])

get_transaction_data(session, start_date, end_date) ==
    LET transactions == get_transactions(session, start_date, end_date)
        kept == SelectSeq(transactions, keep_transaction)
    IN  sort_transaction_rows([i \in 1..Len(kept) |-> transaction_row(kept[i])])

(***************************************************************************)
(* get_account_balances                                                    *)
(***************************************************************************)
account_row(account) ==
    [name |-> IF account.name = STR_Empty THEN STR_Unknown ELSE account.name,
     balance |-> float(cents_to_decimal(IF account.balance_current # None
                                        THEN account.balance_current[1] ELSE 0)),
     type |-> IF account.offbudget THEN STR_OffBudget ELSE STR_OnBudget,
     status |-> IF account.closed THEN STR_Closed ELSE STR_Open]

\* the key (x["type"], x["status"] == "Closed", x["name"]) compared as a tuple
AccountKeyLess(x, y) ==
    LET t  == StrCmp(x.type, y.type)
        cx == x.status = STR_Closed
        cy == y.status = STR_Closed
    IN  \/ t < 0
        \/ t = 0 /\ ~cx /\ cy
        \/ t = 0 /\ cx = cy /\ StrLess(x.name, y.name)

\* data.sort(key=lambda x: (x["type"], x["status"] == "Closed", x["name"]))
sort_account_rows(data) ==
    list_sort(data, [i \in 1..Len(data), j \in 1..Len(data) |->
                        AccountKeyLess(data[i], data[j])])

get_account_balances(session) ==
    LET accounts == get_accounts(session)
        kept == SelectSeq(accounts, LAMBDA account : ~account.tombstone)
    IN  sort_account_rows([i \in 1..Len(kept) |-> account_row(kept[i])])

(***************************************************************************)
(* The Sheet Sink.  A spreadsheet maps the title of each tab it has to the *)
(* grid of values of the tab, a sequence of rows of cells.  Cell formats   *)
(* and column widths are not part of the model.                            *)
(***************************************************************************)
\* get_or_create_worksheet: the spreadsheet with a tab of that title
get_or_create_worksheet(spreadsheet, title) ==
    IF title \in DOMAIN spreadsheet THEN spreadsheet
    ELSE [t \in DOMAIN spreadsheet \cup {title} |->
            IF t = title THEN << >> ELSE spreadsheet[t]]

\* worksheet.clear()
worksheet_clear(grid) == << >>

\* worksheet.update(rows): the rows are written from A1 down; rows of the grid
\* below them keep their values
worksheet_update(grid, rows) ==
    [i \in 1..MaxOf(Len(grid), Len(rows)) |-> IF i <= Len(rows) THEN rows[i] ELSE grid[i]]

\* every row, income rows too: what the totals' filter is compared with
all_rows(data) == data

\* the totals of a budget tab: the rows that count
expense_rows(data) == SelectSeq(data, LAMBDA item : ~item.is_income)

budget_totals_row(data) ==
    LET counted == expense_rows(data)
        total_budgeted == FloatSum([i \in 1..Len(counted) |-> counted[i].budgeted])
        total_actual   == FloatSum([i \in 1..Len(counted) |-> counted[i].actual_spend])
        total_balance  == FloatSum([i \in 1..Len(counted) |-> counted[i].running_balance])
    IN  << STR_TOTAL, STR_Empty, format_currency(total_budgeted),
           format_currency(total_actual), format_currency(total_balance) >>

\* the rows update_sheet_tab writes
budget_tab_rows(month_label, data) ==
    << << month_label, STR_Empty, STR_Empty, STR_Empty, STR_Empty >>,
       << STR_Group, STR_Category, STR_Budgeted, STR_ActualSpend, STR_RunningBalance >> >>
    \o [i \in 1..Len(data) |->
          << data[i].group, data[i].category, format_currency(data[i].budgeted),
             format_currency(data[i].actual_spend),
             format_currency(data[i].running_balance) >>]
    \o << budget_totals_row(data) >>

\* update_sheet_tab(worksheet, month_label, data): the grid of the tab afterwards
update_sheet_tab(grid, month_label, data) ==
    worksheet_update(worksheet_clear(grid), budget_tab_rows(month_label, data))

transaction_tab_rows(title, data) ==
    << << title, STR_Empty, STR_Empty, STR_Empty, STR_Empty, STR_Empty, STR_Empty >>,
       << STR_Date, STR_Account, STR_Payee, STR_Category, STR_Description, STR_Amount,
          STR_Cleared >> >>
    \o [i \in 1..Len(data) |->
          << data[i].date, data[i].account, data[i].payee, data[i].category,
             data[i].description, format_currency(data[i].amount),
             IF data[i].cleared THEN STR_CheckMark ELSE STR_Empty >>]

\* update_transaction_sheet(worksheet, title, data)
update_transaction_sheet(grid, title, data) ==
    worksheet_update(worksheet_clear(grid), transaction_tab_rows(title, data))

\* the three totals with closed accounts counted: what the totals are compared
\* with
totals_with_closed(data) ==
    LET on_budget  == SelectSeq(data, LAMBDA item : item.type = STR_OnBudget)
        off_budget == SelectSeq(data, LAMBDA item : item.type = STR_OffBudget)
    IN  [total_on_budget  |-> FloatSum([i \in 1..Len(on_budget) |-> on_budget[i].balance]),
         total_off_budget |-> FloatSum([i \in 1..Len(off_budget) |-> off_budget[i].balance]),
         total_all        |-> FloatSum([i \in 1..Len(data) |-> data[i].balance])]

\* the three totals of the Account Balances tab
account_totals(data) ==
    LET on_open  == SelectSeq(data, LAMBDA item : item.type = STR_OnBudget
                                                   /\ item.status = STR_Open)
        off_open == SelectSeq(data, LAMBDA item : item.type = STR_OffBudget
                                                   /\ item.status = STR_Open)
        all_open == SelectSeq(data, LAMBDA item : item.status = STR_Open)
    IN  [total_on_budget  |-> FloatSum([i \in 1..Len(on_open) |-> on_open[i].balance]),
         total_off_budget |-> FloatSum([i \in 1..Len(off_open) |-> off_open[i].balance]),
         total_all        |-> FloatSum([i \in 1..Len(all_open) |-> all_open[i].balance])]

account_tab_rows(data) ==
    LET totals == account_totals(data)
    IN  << << STR_AccountBalances, STR_Empty, STR_Empty, STR_Empty >>,
           << STR_AccountName, STR_Balance, STR_Type, STR_Status >> >>
        \o [i \in 1..Len(data) |->
              << data[i].name, format_currency(data[i].balance), data[i].type,
                 data[i].status >>]
        \o << << STR_Empty, STR_Empty, STR_Empty, STR_Empty >>,
              << STR_TotalOnBudget, format_currency(totals.total_on_budget), STR_Empty,
                 STR_Empty >>,
              << STR_TotalOffBudget, format_currency(totals.total_off_budget), STR_Empty,
                 STR_Empty >>,
              << STR_TotalAllOpen, format_currency(totals.total_all), STR_Empty,
                 STR_Empty >> >>

\* update_account_balances_sheet(worksheet, data)
update_account_balances_sheet(grid, data) ==
    worksheet_update(worksheet_clear(grid), account_tab_rows(data))

(***************************************************************************)
(* The run: main().  The state is the Ledger Source (session), the clock   *)
(* (now), the environment settings (config, settings), the spreadsheet,    *)
(* the position of main (pc), the local variables of main and the          *)
(* collaborators main has called so far in the run (calls).                *)
(***************************************************************************)
VARIABLES
    session,             \* what the Ledger Source holds
    now,                 \* datetime.now() of the run
    config,              \* export_transactions, transactions_date_range
    settings,            \* the required variables and the two credentials variables
    calls,               \* the collaborators called so far in this run
    run,                 \* the number of this run
    spreadsheet,         \* the tabs of the Google Sheet
    pc,                  \* where main is
    months,              \* current and previous: start, end, label
    previous_month_data,
    current_month_data,
    transaction_data,    \* None, or the list of rows
    transaction_title,
    account_balances

vars == << session, now, config, settings, calls, run, spreadsheet, pc, months,
           previous_month_data, current_month_data, transaction_data, transaction_title,
           account_balances >>

inputs == << session, now, config, settings, run >>

LedgerSource == "Ledger Source"
SheetSink == "Sheet Sink"

TAB_Previous == "Previous Month Budget"
TAB_Current == "Current Month Budget"
TAB_Transactions == "Transactions"
TAB_Accounts == "Account Balances"

\* the local variables of main before main assigns them
LocalsUnset ==
    /\ months = << >>
    /\ previous_month_data = << >>
    /\ current_month_data = << >>
    /\ transaction_data = None
    /\ transaction_title = STR_Empty
    /\ account_balances = << >>

\* a variable of the environment that is not set, or set to the empty string
Unset == "unset"

\* the variables main requires
required_vars == { "ACTUAL_SERVER_URL", "ACTUAL_PASSWORD", "ACTUAL_FILE", "GOOGLE_SHEET_ID" }

\* [var_name for var_name, var_value in required_vars if not var_value]
missing_vars(s) == { var_name \in required_vars : s.values[var_name] = Unset }

\* if not google_credentials_file and not google_credentials_json
no_credentials(s) ==
    s.google_credentials_file = Unset /\ s.google_credentials_json = Unset

\* the two checks main makes before the try: sys.exit(1) on either
ValidateSettings ==
    /\ pc = "start"
    /\ pc' = IF no_credentials(settings) THEN "failed"
             ELSE IF missing_vars(settings) # {} THEN "failed"
             ELSE "connect"
    /\ UNCHANGED << inputs, calls, spreadsheet, months, previous_month_data,
                    current_month_data, transaction_data, transaction_title,
                    account_balances >>

\* with Actual(...) as actual: actual.download_budget(); get_month_dates(0), (-1)
Connect ==
    /\ pc = "connect"
    /\ months' = [current |-> get_month_dates(now, 0),
                  previous |-> get_month_dates(now, -1)]
    /\ pc' = "extract_previous"
    /\ calls' = calls \cup {LedgerSource}
    /\ UNCHANGED << inputs, spreadsheet, previous_month_data, current_month_data,
                    transaction_data, transaction_title, account_balances >>

ExtractPrevious ==
    /\ pc = "extract_previous"
    /\ previous_month_data' = get_budget_data(session, months.previous.start_date,
                                              months.previous.end_date)
    /\ pc' = "extract_current"
    /\ calls' = calls \cup {LedgerSource}
    /\ UNCHANGED << inputs, spreadsheet, months, current_month_data, transaction_data,
                    transaction_title, account_balances >>

ExtractCurrent ==
    /\ pc = "extract_current"
    /\ current_month_data' = get_budget_data(session, months.current.start_date,
                                             months.current.end_date)
    /\ pc' = "extract_transactions"
    /\ calls' = calls \cup {LedgerSource}
    /\ UNCHANGED << inputs, spreadsheet, months, previous_month_data, transaction_data,
                    transaction_title, account_balances >>

\* the window and the title the date range selects
transaction_window(range, m) ==
    IF range = "previous_month"
    THEN [start_date |-> m.previous.start_date, end_date |-> m.previous.end_date,
          title |-> STR_TransactionsDash \o m.previous.month_label]
    ELSE IF range = "both_months"
    THEN [start_date |-> m.previous.start_date, end_date |-> m.current.end_date,
          title |-> STR_TransactionsDash \o m.previous.month_label \o STR_To
                    \o m.current.month_label]
    ELSE [start_date |-> m.current.start_date, end_date |-> m.current.end_date,
          title |-> STR_TransactionsDash \o m.current.month_label]

ExtractTransactions ==
    /\ pc = "extract_transactions"
    /\ IF config.export_transactions
       THEN LET w == transaction_window(config.transactions_date_range, months)
            IN  /\ transaction_data' = Some(get_transaction_data(session, w.start_date,
                                                                 w.end_date))
                /\ transaction_title' = w.title
       ELSE /\ transaction_data' = None
            /\ UNCHANGED transaction_title
    /\ pc' = "extract_accounts"
    /\ calls' = calls \cup {LedgerSource}
    /\ UNCHANGED << inputs, spreadsheet, months, previous_month_data, current_month_data,
                    account_balances >>

ExtractAccounts ==
    /\ pc = "extract_accounts"
    /\ account_balances' = get_account_balances(session)
    /\ pc' = "open_spreadsheet"
    /\ calls' = calls \cup {LedgerSource}
    /\ UNCHANGED << inputs, spreadsheet, months, previous_month_data, current_month_data,
                    transaction_data, transaction_title >>

\* json.loads and from_service_account_info when the JSON variable is set,
\* from_service_account_file otherwise: TRUE when no exception is raised
credentials_load(s) ==
    IF s.google_credentials_json # Unset
    THEN s.google_credentials_json = "valid"
    ELSE s.google_credentials_file = "valid"

\* credentials, gspread.authorize, client.open_by_key; an exception of the
\* credentials is caught by the except of main: sys.exit(1)
OpenSpreadsheet ==
    /\ pc = "open_spreadsheet"
    /\ IF credentials_load(settings)
       THEN /\ pc' = "update_previous"
            /\ calls' = calls \cup {SheetSink}
       ELSE /\ pc' = "failed"
            /\ UNCHANGED calls
    /\ UNCHANGED << inputs, spreadsheet, months, previous_month_data, current_month_data,
                    transaction_data, transaction_title, account_balances >>

UpdatePreviousTab ==
    /\ pc = "update_previous"
    /\ spreadsheet' = [get_or_create_worksheet(spreadsheet, TAB_Previous)
                         EXCEPT ![TAB_Previous] =
                             update_sheet_tab(@, months.previous.month_label,
                                              previous_month_data)]
    /\ pc' = "update_current"
    /\ calls' = calls \cup {SheetSink}
    /\ UNCHANGED << inputs, months, previous_month_data, current_month_data,
                    transaction_data, transaction_title, account_balances >>

UpdateCurrentTab ==
    /\ pc = "update_current"
    /\ spreadsheet' = [get_or_create_worksheet(spreadsheet, TAB_Current)
                         EXCEPT ![TAB_Current] =
                             update_sheet_tab(@, months.current.month_label,
                                              current_month_data)]
    /\ pc' = "update_transactions"
    /\ calls' = calls \cup {SheetSink}
    /\ UNCHANGED << inputs, months, previous_month_data, current_month_data,
                    transaction_data, transaction_title, account_balances >>

\* if export_transactions and transaction_data: a list is true when not empty
transactions_tab_wanted(export_transactions, data) ==
    export_transactions /\ data # None /\ data[1] # << >>

UpdateTransactionsTab ==
    /\ pc = "update_transactions"
    /\ IF transactions_tab_wanted(config.export_transactions, transaction_data)
       THEN /\ spreadsheet' = [get_or_create_worksheet(spreadsheet, TAB_Transactions)
                                 EXCEPT ![TAB_Transactions] =
                                     update_transaction_sheet(@, transaction_title,
                                                              transaction_data[1])]
            /\ calls' = calls \cup {SheetSink}
       ELSE UNCHANGED << spreadsheet, calls >>
    /\ pc' = "update_accounts"
    /\ UNCHANGED << inputs, months, previous_month_data, current_month_data,
                    transaction_data, transaction_title, account_balances >>

UpdateAccountBalancesTab ==
    /\ pc = "update_accounts"
    /\ spreadsheet' = [get_or_create_worksheet(spreadsheet, TAB_Accounts)
                         EXCEPT ![TAB_Accounts] =
                             update_account_balances_sheet(@, account_balances)]
    /\ pc' = "done"
    /\ calls' = calls \cup {SheetSink}
    /\ UNCHANGED << inputs, months, previous_month_data, current_month_data,
                    transaction_data, transaction_title, account_balances >>

\* one step of a run
RunStep ==
    \/ ValidateSettings
    \/ Connect
    \/ ExtractPrevious
    \/ ExtractCurrent
    \/ ExtractTransactions
    \/ ExtractAccounts
    \/ OpenSpreadsheet
    \/ UpdatePreviousTab
    \/ UpdateCurrentTab
    \/ UpdateTransactionsTab
    \/ UpdateAccountBalancesTab

(***************************************************************************)
(* The inputs the specifications draw from.                                *)
(***************************************************************************)
N_Home == << "H", "o", "m", "e" >>
N_Income == << "I", "n", "c", "o", "m", "e" >>
N_Bills == << "B", "i", "l", "l", "s" >>
N_Apples == << "A", "p", "p", "l", "e", "s" >>
N_Salary == << "S", "a", "l", "a", "r", "y" >>
N_Bank == << "B", "a", "n", "k" >>
N_Cash == << "C", "a", "s", "h" >>
N_Rent == << "R", "e", "n", "t" >>

MaxTxns == 2
MaxFetched == 3
MaxAccounts == 3

Group(id, name, is_income, hidden, tombstone) ==
    [id |-> id, name |-> name, is_income |-> is_income, hidden |-> hidden,
     tombstone |-> tombstone]

Category(id, name, cat_group, hidden, tombstone) ==
    [id |-> id, name |-> name, cat_group |-> cat_group, hidden |-> hidden,
     tombstone |-> tombstone]

Budget(category_id, month, amount) ==
    [category_id |-> category_id, month |-> month, amount |-> amount]

Account(name, balance_current, offbudget, closed, tombstone) ==
    [name |-> name, balance_current |-> balance_current, offbudget |-> offbudget,
     closed |-> closed, tombstone |-> tombstone]

\* a transaction record without the is_parent attribute
Transaction(date, amount, category, account, payee, notes, cleared, tombstone) ==
    [date |-> date, amount |-> amount, category |-> category, account |-> account,
     payee |-> payee, notes |-> notes, cleared |-> cleared, tombstone |-> tombstone]

\* the same record with the attribute set
WithIsParent(t, is_parent) ==
    [f \in DOMAIN t \cup {"is_parent"} |-> IF f = "is_parent" THEN is_parent ELSE t[f]]

\* the values the flags (hidden, tombstone) take
Flags == { << FALSE, FALSE >>, << TRUE, FALSE >>, << FALSE, TRUE >> }

HomeGroup == Group(1, N_Home, FALSE, FALSE, FALSE)
IncomeGroup == Group(2, N_Income, TRUE, FALSE, FALSE)
BillsCategory == Category(1, N_Bills, 1, FALSE, FALSE)
ApplesCategory == Category(2, N_Apples, 1, FALSE, FALSE)
SalaryCategory == Category(3, N_Salary, 2, FALSE, FALSE)
BankAccount == Account(N_Bank, Some(123456), FALSE, FALSE, FALSE)

\* the sequences over 1..k of length up to n
SeqsUpTo(k, n) == UNION { [1..len -> 1..k] : len \in 0..n }

\* those that never step down: one per multiset
Ascending(k, n) == { f \in SeqsUpTo(k, n) : \A i \in 1..(Len(f) - 1) : f[i] <= f[i + 1] }

\* the environment with the required variables in `unset` not set
Settings(unset, credentials_file, credentials_json) ==
    [values |-> [var_name \in required_vars |->
                    IF var_name \in unset THEN Unset ELSE "set"],
     google_credentials_file |-> credentials_file,
     google_credentials_json |-> credentials_json]

\* every required variable set and a credentials file that loads
CompleteSettings == Settings({}, "valid", Unset)

NoLocals ==
    /\ pc = "start"
    /\ calls = {}
    /\ run = 1
    /\ LocalsUnset

(***************************************************************************)
(* SpecAmounts: two visible groups (expense, income) with three visible    *)
(* categories; what varies is the budgets and the transactions.            *)
(***************************************************************************)
AmountsNow == << 2024, 3, 15 >>

\* the transactions to draw from: six of March 2024 without the is_parent
\* attribute, two with it false, three with it true (the parents), two of
\* February 2024
AmountTransactions ==
    LET plain(cat, amount, date) ==
            Transaction(date, amount, Some(cat), Some(BankAccount), None, None, TRUE, FALSE)
        cats    == << BillsCategory, SalaryCategory >>
        amounts == << -5000, -10, 1200 >>
        inWindow == [i \in 1..6 |-> plain(cats[((i - 1) \div 3) + 1], amounts[((i - 1) % 3) + 1],
                                          20240305)]
    IN  inWindow
        \o << WithIsParent(inWindow[2], FALSE), WithIsParent(inWindow[6], FALSE) >>
        \o << WithIsParent(inWindow[1], TRUE), WithIsParent(inWindow[3], TRUE),
              WithIsParent(inWindow[5], TRUE) >>
        \o << plain(BillsCategory, -5000, 20240229), plain(SalaryCategory, 1200, 20240201) >>

AmountBudgets ==
    { b1 \o b3 \o << Budget(2, 202402, Some(110)) >> :
        b1 \in { << >>,
                 << Budget(1, 202403, Some(30)) >>,
                 << Budget(1, 202403, Some(1000)), Budget(1, 202403, Some(30)) >>,
                 << Budget(1, 202403, None) >> },
        b3 \in { << >>, << Budget(3, 202403, Some(1000)) >> } }

InitAmounts ==
    /\ now = AmountsNow
    /\ config = [export_transactions |-> TRUE, transactions_date_range |-> "current_month"]
    /\ \E budgets \in AmountBudgets :
       \E pick \in Ascending(Len(AmountTransactions), MaxTxns) :
          LET universe == AmountTransactions
          IN  session = [groups |-> << HomeGroup, IncomeGroup >>,
                         categories |-> << BillsCategory, ApplesCategory, SalaryCategory >>,
                         budgets |-> budgets,
                         transactions |-> [i \in 1..Len(pick) |-> universe[pick[i]]],
                         accounts |-> << BankAccount >>]
    /\ spreadsheet = << >>
    /\ settings = CompleteSettings
    /\ NoLocals

SpecAmounts == InitAmounts /\ [][RunStep]_vars

(***************************************************************************)
(* What the claims are stated with.                                        *)
(***************************************************************************)
RECURSIVE SumInts(_, _)
SumInts(xs, i) == IF i > Len(xs) THEN 0 ELSE xs[i] + SumInts(xs, i + 1)

DigitValue(ch) == CHOOSE d \in 0..9 : DigitChar[d + 1] = ch

RECURSIVE DigitsFrom(_, _, _)
DigitsFrom(text, i, acc) ==
    IF i > Len(text) THEN acc
    ELSE IF text[i] \in {"$", "-", ",", "."} THEN DigitsFrom(text, i + 1, acc)
    ELSE DigitsFrom(text, i + 1, acc * 10 + DigitValue(text[i]))

\* a currency text read back: the cents it shows, negative after "$-"
CentsOfText(text) ==
    IF Len(text) >= 2 /\ text[2] = "-" THEN 0 - DigitsFrom(text, 1, 0)
    ELSE DigitsFrom(text, 1, 0)

\* get_budget_data has just returned the rows of the current month
CurrentMonthReturned == pc = "extract_transactions"

\* the rows get_budget_data returns for the current month from a ledger s
CurrentMonthDataOf(s) ==
    get_budget_data(s, months.current.start_date, months.current.end_date)

\* the amounts C1 speaks of, row by row
SpendAndBalance(data) ==
    [i \in 1..Len(data) |->
        << data[i].group, data[i].category, data[i].actual_spend, data[i].running_balance >>]

ParentsRemoved(s) ==
    [s EXCEPT !.transactions = SelectSeq(s.transactions, LAMBDA t : ~getattr_is_parent(t))]

ParentsSetTo(s, amount) ==
    [s EXCEPT !.transactions =
        [i \in 1..Len(s.transactions) |->
            IF getattr_is_parent(s.transactions[i])
            THEN [s.transactions[i] EXCEPT !.amount = amount]
            ELSE s.transactions[i]]]

ParentAdded(s, t) ==
    [s EXCEPT !.transactions = Append(s.transactions, t)]

\* the parent transactions of the universe
ParentTransactions ==
    { AmountTransactions[k] : k \in { j \in 1..Len(AmountTransactions) :
                                        getattr_is_parent(AmountTransactions[j]) } }

\* C1: the actual_spend and running_balance of every row get_budget_data
\* returns are those it returns when the parent transactions of the ledger
\* are removed, when their amounts are changed, and when one more parent
\* transaction is added.
C1_ParentsDoNotCount ==
    CurrentMonthReturned =>
        /\ SpendAndBalance(CurrentMonthDataOf(ParentsRemoved(session)))
               = SpendAndBalance(current_month_data)
        /\ \A amount \in {-5000, 0, 777} :
              SpendAndBalance(CurrentMonthDataOf(ParentsSetTo(session, amount)))
                  = SpendAndBalance(current_month_data)
        /\ \A t \in ParentTransactions :
              SpendAndBalance(CurrentMonthDataOf(ParentAdded(session, t)))
                  = SpendAndBalance(current_month_data)

\* a parent of 1200 cents and a plain transaction of -5000 cents in Bills:
\* the row shows 50.00
C1_Witness ==
    /\ CurrentMonthReturned
    /\ \E i, j \in 1..Len(session.transactions) :
          /\ getattr_is_parent(session.transactions[i])
          /\ session.transactions[i].category = Some(BillsCategory)
          /\ session.transactions[i].amount = 1200
          /\ ~getattr_is_parent(session.transactions[j])
          /\ session.transactions[j].category = Some(BillsCategory)
          /\ session.transactions[j].amount = -5000
    /\ \E r \in 1..Len(current_month_data) :
          /\ current_month_data[r].category = N_Bills
          /\ current_month_data[r].actual_spend = FloatOfDecimal(5000)

\* the category and the group a row stands for (names are distinct here)
CategoryNamed(s, name) ==
    s.categories[CHOOSE k \in 1..Len(s.categories) : s.categories[k].name = name]

GroupOf(s, category) ==
    s.groups[CHOOSE k \in 1..Len(s.groups) : s.groups[k].id = category.cat_group]

\* the cents of the transactions of a category that count in a window: dated
\* in it and not parents
CountedCents(s, category, window) ==
    SumInts([i \in 1..Len(s.transactions) |->
                IF /\ s.transactions[i].category # None
                   /\ s.transactions[i].category[1].id = category.id
                   /\ DateInt(window.start_date) <= s.transactions[i].date
                   /\ s.transactions[i].date <= DateInt(window.end_date)
                   /\ ~( "is_parent" \in DOMAIN s.transactions[i]
                         /\ s.transactions[i].is_parent )
                THEN s.transactions[i].amount ELSE 0], 1)

\* C2: the actual_spend of a row is the sum of the non-parent in-window
\* amounts of its category, negated when the group is not an income group
\* and as it is when the group is an income group.
C2_SignNormalization ==
    CurrentMonthReturned =>
        \A r \in 1..Len(current_month_data) :
            LET category == CategoryNamed(session, current_month_data[r].category)
                total    == CountedCents(session, category, months.current)
            IN  current_month_data[r].actual_spend =
                    float(cents_to_decimal(IF GroupOf(session, category).is_income
                                           THEN total ELSE 0 - total))

\* Bills (expense) sums to -5000 cents and shows 50.00; Salary (income) sums
\* to 1200 cents and shows 12.00
C2_Witness ==
    /\ CurrentMonthReturned
    /\ CountedCents(session, BillsCategory, months.current) = -5000
    /\ CountedCents(session, SalaryCategory, months.current) = 1200
    /\ \E r, q \in 1..Len(current_month_data) :
          /\ current_month_data[r].category = N_Bills
          /\ current_month_data[r].actual_spend = FloatOfDecimal(5000)
          /\ current_month_data[q].category = N_Salary
          /\ current_month_data[q].actual_spend = FloatOfDecimal(1200)

\* C3: the running_balance of every row equals the value recomputed from the
\* budgeted and the actual_spend the row carries: actual_spend - budgeted for
\* an income group, budgeted - actual_spend otherwise.
C3_BalanceRecomputes ==
    CurrentMonthReturned =>
        \A r \in 1..Len(current_month_data) :
            current_month_data[r].running_balance =
                IF current_month_data[r].is_income
                THEN FloatSub(current_month_data[r].actual_spend,
                              current_month_data[r].budgeted)
                ELSE FloatSub(current_month_data[r].budgeted,
                              current_month_data[r].actual_spend)

\* update_sheet_tab has just written the tab of the current month
CurrentTabWritten == pc = "update_transactions"

\* the TOTAL row of a budget tab: its last row
TotalRowOf(grid) == grid[Len(grid)]

\* rows with the income rows taken out, with their amounts changed, and with
\* one more income row
IncomeRowsRemoved(data) == SelectSeq(data, LAMBDA item : ~item.is_income)

IncomeRowsSetTo(data, cents) ==
    [i \in 1..Len(data) |->
        IF data[i].is_income
        THEN [data[i] EXCEPT !.budgeted = FloatOfDecimal(cents),
                             !.actual_spend = FloatOfDecimal(cents + 1),
                             !.running_balance = FloatOfDecimal(1)]
        ELSE data[i]]

IncomeRowAdded(data, cents) ==
    Append(data, [group |-> N_Income, category |-> N_Rent,
                  budgeted |-> FloatOfDecimal(cents), actual_spend |-> FloatOfDecimal(cents + 1),
                  running_balance |-> FloatOfDecimal(1), is_income |-> TRUE])

\* the cents shown in column col of the rows of the tab that are not income
\* rows (row i of the data is row i + 2 of the tab)
ExpenseCentsShown(grid, data, col) ==
    SumInts([i \in 1..Len(data) |->
                IF data[i].is_income THEN 0 ELSE CentsOfText(grid[i + 2][col])], 1)

\* C6: the TOTAL row update_sheet_tab writes is the one it writes for the
\* same rows with the income rows removed, changed or one more added, and
\* each total shows the sum of what the non-income rows show in its column.
C6_TotalsSkipIncome ==
    CurrentTabWritten =>
        LET grid  == spreadsheet[TAB_Current]
            total == TotalRowOf(grid)
        IN  /\ total[1] = STR_TOTAL
            /\ budget_totals_row(IncomeRowsRemoved(current_month_data)) = total
            /\ \A cents \in {7777, -250} :
                  /\ budget_totals_row(IncomeRowsSetTo(current_month_data, cents)) = total
                  /\ budget_totals_row(IncomeRowAdded(current_month_data, cents)) = total
            /\ \A col \in 3..5 :
                  CentsOfText(total[col]) = ExpenseCentsShown(grid, current_month_data, col)

\* an income row of 12.00 and an expense row of 50.00 against a budget of
\* 0.30: the totals show $0.30, $50.00 and $-49.70
C6_Witness ==
    /\ CurrentTabWritten
    /\ \E r, q \in 1..Len(current_month_data) :
          /\ current_month_data[r].is_income
          /\ current_month_data[r].actual_spend = FloatOfDecimal(1200)
          /\ ~current_month_data[q].is_income
          /\ current_month_data[q].actual_spend = FloatOfDecimal(5000)
          /\ current_month_data[q].budgeted = FloatOfDecimal(30)
    /\ TotalRowOf(spreadsheet[TAB_Current])
          = << STR_TOTAL, STR_Empty, << "$", "0", ".", "3", "0" >>,
               << "$", "5", "0", ".", "0", "0" >>,
               << "$", "-", "4", "9", ".", "7", "0" >> >>

(***************************************************************************)
(* SpecEligibility: the two groups and the three categories in every order *)
(* the Ledger Source may return them in, each visible, hidden or           *)
(* tombstoned; Bills has a budget and a transaction, Apples and Salary     *)
(* have neither.                                                           *)
(***************************************************************************)
Perms(n) == { f \in [1..n -> 1..n] : \A i, j \in 1..n : f[i] = f[j] => i = j }

WithFlags(x, f) == [x EXCEPT !.hidden = f[1], !.tombstone = f[2]]

InitEligibility ==
    /\ now = AmountsNow
    /\ config = [export_transactions |-> TRUE, transactions_date_range |-> "current_month"]
    /\ \E gorder \in Perms(2), gflags \in [1..2 -> Flags] :
       \E corder \in Perms(3), cflags \in [1..3 -> Flags] :
          LET groups     == << HomeGroup, IncomeGroup >>
              categories == << BillsCategory, ApplesCategory, SalaryCategory >>
          IN  session =
                 [groups |-> [i \in 1..2 |-> WithFlags(groups[gorder[i]], gflags[gorder[i]])],
                  categories |->
                      [i \in 1..3 |-> WithFlags(categories[corder[i]], cflags[corder[i]])],
                  budgets |-> << Budget(1, 202403, Some(30)) >>,
                  transactions |-> << AmountTransactions[1] >>,
                  accounts |-> << BankAccount >>]
    /\ spreadsheet = << >>
    /\ settings = CompleteSettings
    /\ NoLocals

SpecEligibility == InitEligibility /\ [][RunStep]_vars

\* a category is eligible: neither it nor its group is hidden or tombstoned
Eligible(s, category) ==
    /\ ~category.hidden
    /\ ~category.tombstone
    /\ \E k \in 1..Len(s.groups) :
          /\ s.groups[k].id = category.cat_group
          /\ ~s.groups[k].hidden
          /\ ~s.groups[k].tombstone

\* the rows of a category: those with its name and the name of its group
RowsOf(data, s, category) ==
    { r \in 1..Len(data) : /\ data[r].category = category.name
                           /\ data[r].group = GroupOf(s, category).name }

\* a category with no allocation for the month and no transaction in it
Untouched(s, category, window) ==
    /\ \A k \in 1..Len(s.budgets) :
          ~( s.budgets[k].category_id = category.id
             /\ s.budgets[k].month = window.start_date[1] * 100 + window.start_date[2] )
    /\ \A k \in 1..Len(s.transactions) :
          ~( /\ s.transactions[k].category # None
             /\ s.transactions[k].category[1].id = category.id
             /\ DateInt(window.start_date) <= s.transactions[k].date
             /\ s.transactions[k].date <= DateInt(window.end_date) )

\* C4: get_budget_data returns one row for every eligible category, none for
\* any other category and no further row; the row of an eligible category
\* with no allocation and no transactions carries three zeros; a group with
\* no eligible category has no row.
C4_OneRowPerEligibleCategory ==
    CurrentMonthReturned =>
        /\ \A k \in 1..Len(session.categories) :
              Cardinality(RowsOf(current_month_data, session, session.categories[k]))
                  = IF Eligible(session, session.categories[k]) THEN 1 ELSE 0
        /\ Len(current_month_data)
              = Cardinality({ k \in 1..Len(session.categories) :
                                Eligible(session, session.categories[k]) })
        /\ \A k \in 1..Len(session.categories) :
              Eligible(session, session.categories[k])
              /\ Untouched(session, session.categories[k], months.current)
              => \A r \in RowsOf(current_month_data, session, session.categories[k]) :
                    /\ current_month_data[r].budgeted = FloatOfDecimal(0)
                    /\ current_month_data[r].actual_spend = FloatOfDecimal(0)
                    /\ current_month_data[r].running_balance = FloatOfDecimal(0)
        /\ \A g \in 1..Len(session.groups) :
              (\A k \in 1..Len(session.categories) :
                  session.categories[k].cat_group = session.groups[g].id
                  => ~Eligible(session, session.categories[k]))
              => \A r \in 1..Len(current_month_data) :
                    current_month_data[r].group # session.groups[g].name

\* Bills is hidden, the Income group is tombstoned with Salary visible, and
\* Apples is eligible with nothing allocated or spent: its zero row is the
\* only row
C4_Witness ==
    /\ CurrentMonthReturned
    /\ CategoryNamed(session, N_Bills).hidden
    /\ ~CategoryNamed(session, N_Salary).hidden
    /\ ~CategoryNamed(session, N_Salary).tombstone
    /\ GroupOf(session, SalaryCategory).tombstone
    /\ Eligible(session, CategoryNamed(session, N_Apples))
    /\ current_month_data
          = << [group |-> N_Home, category |-> N_Apples, budgeted |-> FloatZero,
                actual_spend |-> FloatZero, running_balance |-> FloatZero,
                is_income |-> FALSE] >>

\* C5: whatever the order of the groups and the categories in the ledger,
\* the rows get_budget_data returns ascend by (group name, category name);
\* Apples comes before Bills of the same group.
C5_SortedByGroupThenCategory ==
    CurrentMonthReturned =>
        /\ \A r, q \in 1..Len(current_month_data) :
              r < q =>
                 \/ StrCmp(current_month_data[r].group, current_month_data[q].group) < 0
                 \/ /\ current_month_data[r].group = current_month_data[q].group
                    /\ StrCmp(current_month_data[r].category,
                              current_month_data[q].category) <= 0
        /\ \A r, q \in 1..Len(current_month_data) :
              /\ current_month_data[r].category = N_Apples
              /\ current_month_data[q].category = N_Bills
              /\ current_month_data[r].group = current_month_data[q].group
              => r < q

\* the ledger returns Income before Home and Bills before Apples, all
\* visible: the rows are Home/Apples, Home/Bills, Income/Salary
C5_Witness ==
    /\ CurrentMonthReturned
    /\ session.groups[1].name = N_Income
    /\ session.categories[1].name = N_Bills
    /\ session.categories[2].name = N_Salary
    /\ [r \in 1..Len(current_month_data) |->
           << current_month_data[r].group, current_month_data[r].category >>]
          = << << N_Home, N_Apples >>, << N_Home, N_Bills >>, << N_Income, N_Salary >> >>

(***************************************************************************)
(* SpecTransactions: up to MaxFetched transactions in the order the Ledger *)
(* Source holds them, each dated 5 March, 10 March or 20 February 2024 and *)
(* each plain, a parent or tombstoned; the amount of a transaction tells   *)
(* its position.  The window is March, or February and March.              *)
(***************************************************************************)
FetchDates == << 20240305, 20240310, 20240220 >>

FetchKinds == { "plain", "parent", "tombstone" }

TransactionAt(i, date, kind) ==
    LET t == Transaction(date, 100 * i, Some(BillsCategory), Some(BankAccount), None, None,
                         FALSE, kind = "tombstone")
    IN  IF kind = "parent" THEN WithIsParent(t, TRUE) ELSE t

DateRanges == { "current_month", "previous_month", "both_months" }

InitTransactions ==
    /\ now = AmountsNow
    /\ \E range \in { "current_month", "both_months" } :
          config = [export_transactions |-> TRUE, transactions_date_range |-> range]
    /\ \E len \in 0..MaxFetched :
       \E dates \in [1..len -> 1..Len(FetchDates)], kinds \in [1..len -> FetchKinds] :
          session = [groups |-> << HomeGroup, IncomeGroup >>,
                     categories |-> << BillsCategory, ApplesCategory, SalaryCategory >>,
                     budgets |-> << >>,
                     transactions |->
                         [i \in 1..len |-> TransactionAt(i, FetchDates[dates[i]], kinds[i])],
                     accounts |-> << BankAccount >>]
    /\ spreadsheet = << >>
    /\ settings = CompleteSettings
    /\ NoLocals

SpecTransactions == InitTransactions /\ [][RunStep]_vars

\* get_transaction_data has just returned
TransactionsReturned == pc = "extract_accounts" /\ transaction_data # None

\* the window of the run
WindowOfRun == transaction_window(config.transactions_date_range, months)

\* the positions in the ledger of the transactions that are to be returned:
\* dated in the window, not parents, not tombstoned
ToReturn(s, window) ==
    { i \in 1..Len(s.transactions) :
        /\ DateInt(window.start_date) <= s.transactions[i].date
        /\ s.transactions[i].date <= DateInt(window.end_date)
        /\ ~( "is_parent" \in DOMAIN s.transactions[i] /\ s.transactions[i].is_parent )
        /\ ~s.transactions[i].tombstone }

\* the position in the ledger of the transaction a row shows
SourceOf(s, row) ==
    CHOOSE i \in 1..Len(s.transactions) :
        FloatOfDecimal(s.transactions[i].amount) = row.amount

SourcesOf(s, data) == [r \in 1..Len(data) |-> SourceOf(s, data[r])]

\* C7: get_transaction_data returns one row for each in-window transaction
\* that is neither a parent nor tombstoned and no other row; the rows go from
\* the latest date to the earliest, rows of one date in the order the Ledger
\* Source returned their transactions.
C7_NewestFirstStable ==
    TransactionsReturned =>
        LET data == transaction_data[1]
            src  == SourcesOf(session, data)
        IN  /\ Len(data) = Cardinality(ToReturn(session, WindowOfRun))
            /\ { src[r] : r \in 1..Len(data) } = ToReturn(session, WindowOfRun)
            /\ \A r \in 1..Len(data) :
                  data[r].date = formatted_date(session.transactions[src[r]].date)
            /\ \A r, q \in 1..Len(data) :
                  r < q =>
                     \/ session.transactions[src[r]].date > session.transactions[src[q]].date
                     \/ /\ session.transactions[src[r]].date
                             = session.transactions[src[q]].date
                        /\ src[r] < src[q]

\* 5 March, 10 March, 5 March, all returned: the second comes first and the
\* two of 5 March follow in their order
C7_Witness ==
    /\ TransactionsReturned
    /\ Len(session.transactions) = 3
    /\ session.transactions[1].date = 20240305
    /\ session.transactions[2].date = 20240310
    /\ session.transactions[3].date = 20240305
    /\ SourcesOf(session, transaction_data[1]) = << 2, 1, 3 >>

(***************************************************************************)
(* SpecAccounts: up to MaxAccounts accounts in the order the Ledger Source *)
(* holds them, each named Bank or Cash, on or off budget, open or closed,  *)
(* or else a tombstoned open on-budget Cash.  A closed account holds       *)
(* 500.00; an open one holds 0.10 times its position, every third one      *)
(* negative.                                                               *)
(***************************************************************************)
AccountNames == << N_Bank, N_Cash >>

\* name, offbudget, closed, tombstone
AccountKinds ==
    { << name, offbudget, closed, FALSE >> :
        name \in 1..Len(AccountNames), offbudget \in BOOLEAN, closed \in BOOLEAN }
    \cup { << 2, FALSE, FALSE, TRUE >> }

BalanceAt(i, closed) ==
    IF closed THEN 50000 ELSE IF i % 3 = 0 THEN 0 - 10 * i ELSE 10 * i

InitAccounts ==
    /\ now = AmountsNow
    /\ config = [export_transactions |-> TRUE, transactions_date_range |-> "current_month"]
    /\ \E len \in 0..MaxAccounts :
       \E kinds \in [1..len -> AccountKinds] :
          session = [groups |-> << HomeGroup, IncomeGroup >>,
                     categories |-> << BillsCategory, ApplesCategory, SalaryCategory >>,
                     budgets |-> << >>,
                     transactions |-> << AmountTransactions[1] >>,
                     accounts |->
                         [i \in 1..len |->
                             Account(AccountNames[kinds[i][1]],
                                     Some(BalanceAt(i, kinds[i][3])),
                                     kinds[i][2], kinds[i][3], kinds[i][4])]]
    /\ spreadsheet = << >>
    /\ settings = CompleteSettings
    /\ NoLocals

SpecAccounts == InitAccounts /\ [][RunStep]_vars

\* get_account_balances has just returned
AccountsReturned == pc = "open_spreadsheet"

\* C8: in the rows get_account_balances returns every On Budget account
\* comes before every Off Budget account; within a type open accounts come
\* before closed ones; within a type and a status names ascend.
C8_OnBudgetFirst ==
    AccountsReturned =>
        \A r, q \in 1..Len(account_balances) :
            r < q =>
               \/ /\ account_balances[r].type = STR_OnBudget
                  /\ account_balances[q].type = STR_OffBudget
               \/ /\ account_balances[r].type = account_balances[q].type
                  /\ account_balances[r].status = STR_Open
                  /\ account_balances[q].status = STR_Closed
               \/ /\ account_balances[r].type = account_balances[q].type
                  /\ account_balances[r].status = account_balances[q].status
                  /\ StrCmp(account_balances[r].name, account_balances[q].name) <= 0

\* the same with the two types the other way round, which is what the sort
\* key gives: as strs, "Off Budget" is below "On Budget"
AccountsOffBudgetFirst ==
    AccountsReturned =>
        \A r, q \in 1..Len(account_balances) :
            r < q =>
               \/ /\ account_balances[r].type = STR_OffBudget
                  /\ account_balances[q].type = STR_OnBudget
               \/ /\ account_balances[r].type = account_balances[q].type
                  /\ account_balances[r].status = STR_Open
                  /\ account_balances[q].status = STR_Closed
               \/ /\ account_balances[r].type = account_balances[q].type
                  /\ account_balances[r].status = account_balances[q].status
                  /\ StrCmp(account_balances[r].name, account_balances[q].name) <= 0

\* update_account_balances_sheet has written the tab
AccountsTabWritten == pc = "done"

\* the positions in the ledger of the accounts that are not tombstoned
Listed(s) == { i \in 1..Len(s.accounts) : ~s.accounts[i].tombstone }

\* a row of the tab shows an account
Shows(row, account) ==
    /\ row[1] = account.name
    /\ CentsOfText(row[2]) = account.balance_current[1]
    /\ row[3] = (IF account.offbudget THEN STR_OffBudget ELSE STR_OnBudget)
    /\ row[4] = (IF account.closed THEN STR_Closed ELSE STR_Open)

\* the cents of the open accounts among the listed ones whose offbudget flag
\* is one of the given values
OpenCents(s, offbudget) ==
    SumInts([i \in 1..Len(s.accounts) |->
                IF /\ i \in Listed(s)
                   /\ ~s.accounts[i].closed
                   /\ s.accounts[i].offbudget \in offbudget
                THEN s.accounts[i].balance_current[1] ELSE 0], 1)

ClosedSetTo(s, cents) ==
    [s EXCEPT !.accounts =
        [i \in 1..Len(s.accounts) |->
            IF s.accounts[i].closed
            THEN [s.accounts[i] EXCEPT !.balance_current = Some(cents)]
            ELSE s.accounts[i]]]

\* the three rows of totals: the last three rows of the tab
TotalRowsOf(grid) == SubSeq(grid, Len(grid) - 2, Len(grid))

\* C9: the Account Balances tab has one row for every account that is not
\* tombstoned, closed ones too, and no other account row; the three totals
\* show the sums over the open accounts on budget, off budget and of both
\* types; a closed account's balance changes no total; the total of all open
\* accounts shows the on-budget total plus the off-budget total.  The totals
\* are taken as the tab shows them, to the cent: the floats behind the cells
\* are sums in different orders and may differ in their last bit.
C9_TotalsOverOpenAccounts ==
    AccountsTabWritten =>
        LET grid   == spreadsheet[TAB_Accounts]
            n      == Cardinality(Listed(session))
            totals == TotalRowsOf(grid)
        IN  /\ Len(grid) = n + 6
            /\ \A i \in Listed(session) :
                  Cardinality({ r \in 3..(n + 2) : Shows(grid[r], session.accounts[i]) })
                      = Cardinality({ j \in Listed(session) :
                                        session.accounts[j] = session.accounts[i] })
            /\ totals[1][1] = STR_TotalOnBudget
            /\ totals[2][1] = STR_TotalOffBudget
            /\ totals[3][1] = STR_TotalAllOpen
            /\ CentsOfText(totals[1][2]) = OpenCents(session, {FALSE})
            /\ CentsOfText(totals[2][2]) = OpenCents(session, {TRUE})
            /\ CentsOfText(totals[3][2]) = OpenCents(session, BOOLEAN)
            /\ CentsOfText(totals[3][2])
                  = CentsOfText(totals[1][2]) + CentsOfText(totals[2][2])
            /\ \A cents \in {0, 123} :
                  TotalRowsOf(account_tab_rows(get_account_balances(
                                  ClosedSetTo(session, cents)))) = totals

\* Bank, on budget and open with 0.10, and Cash, on budget and closed with
\* 500.00: Cash has its row, and the on-budget total shows $0.10
C9_Witness ==
    /\ AccountsTabWritten
    /\ session.accounts
          = << Account(N_Bank, Some(10), FALSE, FALSE, FALSE),
               Account(N_Cash, Some(50000), FALSE, TRUE, FALSE) >>
    /\ spreadsheet[TAB_Accounts][4]
          = << N_Cash, << "$", "5", "0", "0", ".", "0", "0" >>, STR_OnBudget, STR_Closed >>
    /\ TotalRowsOf(spreadsheet[TAB_Accounts])[1][2] = << "$", "0", ".", "1", "0" >>
    /\ TotalRowsOf(spreadsheet[TAB_Accounts])[3][2] = << "$", "0", ".", "1", "0" >>

(***************************************************************************)
(* Spec: run after run against one spreadsheet.  Between two runs the      *)
(* ledger, the clock and the settings change; the spreadsheet keeps what   *)
(* the runs before wrote.  A call of the Ledger Source or of the Sheet     *)
(* Sink may raise; the specifications above draw the inputs of the         *)
(* extraction and take the runs in which no call raises.                   *)
(***************************************************************************)
MaxRuns == 2

RunNows == { << 2024, 3, 15 >>, << 2024, 4, 2 >> }

RunTransactions ==
    { << >>,
      << Transaction(20240305, -5000, Some(BillsCategory), Some(BankAccount), None, None,
                     TRUE, FALSE) >>,
      << Transaction(20240220, 1200, Some(SalaryCategory), Some(BankAccount), None, None,
                     FALSE, FALSE) >> }

RunSessions ==
    { [groups |-> << HomeGroup, IncomeGroup >>,
       categories |-> << BillsCategory, ApplesCategory, SalaryCategory >>,
       budgets |-> << Budget(1, 202403, Some(30)) >>,
       transactions |-> transactions,
       accounts |-> << BankAccount >>] : transactions \in RunTransactions }

RunConfigs ==
    [export_transactions : BOOLEAN, transactions_date_range : DateRanges]

\* complete settings with either kind of credentials, a required variable
\* not set, no credentials, and credentials that do not load
RunSettings ==
    { CompleteSettings,
      Settings({}, Unset, "valid"),
      Settings({"ACTUAL_PASSWORD"}, "valid", Unset),
      Settings({}, Unset, Unset),
      Settings({}, "valid", "invalid"),
      Settings({}, "invalid", Unset) }

Init ==
    /\ session \in RunSessions
    /\ now \in RunNows
    /\ config \in RunConfigs
    /\ settings \in RunSettings
    /\ spreadsheet = << >>
    /\ NoLocals

\* the steps of main that call the Ledger Source: the transactions are read
\* only when their export is enabled
calls_ledger_source(step, export_transactions) ==
    \/ step \in {"connect", "extract_previous", "extract_current", "extract_accounts"}
    \/ step = "extract_transactions" /\ export_transactions

\* a call of the Ledger Source raises: the except of main, sys.exit(1)
LedgerSourceFails ==
    /\ calls_ledger_source(pc, config.export_transactions)
    /\ calls' = calls \cup {LedgerSource}
    /\ pc' = "failed"
    /\ UNCHANGED << inputs, spreadsheet, months, previous_month_data, current_month_data,
                    transaction_data, transaction_title, account_balances >>

\* client.open_by_key raises: the except of main, sys.exit(1)
OpenSpreadsheetFails ==
    /\ pc = "open_spreadsheet"
    /\ credentials_load(settings)
    /\ calls' = calls \cup {SheetSink}
    /\ pc' = "failed"
    /\ UNCHANGED << inputs, spreadsheet, months, previous_month_data, current_month_data,
                    transaction_data, transaction_title, account_balances >>

\* the calls main makes on a tab, in the order it makes them
TabCalls == {"worksheet", "clear", "update", "format"}

\* the spreadsheet when the call `failing` on the tab `title` raises: the
\* calls before it have been made, the failing one has changed nothing
tab_after_failure(sheet, title, rows, failing) ==
    IF failing = "worksheet" THEN sheet
    ELSE IF failing = "clear" THEN get_or_create_worksheet(sheet, title)
    ELSE IF failing = "update"
    THEN [get_or_create_worksheet(sheet, title) EXCEPT ![title] = worksheet_clear(@)]
    ELSE [get_or_create_worksheet(sheet, title)
             EXCEPT ![title] = worksheet_update(worksheet_clear(@), rows)]

\* a call of the Sheet Sink on the tab main is updating raises: the except
\* of main, sys.exit(1)
UpdateTabFails ==
    /\ \E failing \in TabCalls :
          \/ /\ pc = "update_previous"
             /\ spreadsheet' = tab_after_failure(spreadsheet, TAB_Previous,
                     budget_tab_rows(months.previous.month_label, previous_month_data),
                     failing)
          \/ /\ pc = "update_current"
             /\ spreadsheet' = tab_after_failure(spreadsheet, TAB_Current,
                     budget_tab_rows(months.current.month_label, current_month_data),
                     failing)
          \/ /\ pc = "update_transactions"
             /\ transactions_tab_wanted(config.export_transactions, transaction_data)
             /\ spreadsheet' = tab_after_failure(spreadsheet, TAB_Transactions,
                     transaction_tab_rows(transaction_title, transaction_data[1]),
                     failing)
          \/ /\ pc = "update_accounts"
             /\ spreadsheet' = tab_after_failure(spreadsheet, TAB_Accounts,
                     account_tab_rows(account_balances), failing)
    /\ calls' = calls \cup {SheetSink}
    /\ pc' = "failed"
    /\ UNCHANGED << inputs, months, previous_month_data, current_month_data,
                    transaction_data, transaction_title, account_balances >>

\* the script is started again
NextRun ==
    /\ pc \in {"done", "failed"}
    /\ run < MaxRuns
    /\ run' = run + 1
    /\ session' \in RunSessions
    /\ now' \in RunNows
    /\ config' \in RunConfigs
    /\ settings' \in RunSettings
    /\ calls' = {}
    /\ pc' = "start"
    /\ months' = << >>
    /\ previous_month_data' = << >>
    /\ current_month_data' = << >>
    /\ transaction_data' = None
    /\ transaction_title' = STR_Empty
    /\ account_balances' = << >>
    /\ UNCHANGED spreadsheet

Next ==
    \/ RunStep
    \/ LedgerSourceFails
    \/ OpenSpreadsheetFails
    \/ UpdateTabFails
    \/ NextRun

Spec == Init /\ [][Next]_vars

\* a run has ended with success
RunSucceeded == pc = "done"

\* after a successful run the two budget tabs and the Account Balances tab
\* hold the grids of that run and nothing else
BudgetAndAccountTabsHoldThisRun ==
    RunSucceeded =>
        /\ spreadsheet[TAB_Previous]
              = budget_tab_rows(months.previous.month_label, previous_month_data)
        /\ spreadsheet[TAB_Current]
              = budget_tab_rows(months.current.month_label, current_month_data)
        /\ spreadsheet[TAB_Accounts] = account_tab_rows(account_balances)

\* C10: after a successful run every target tab holds the grid computed in
\* that run and nothing of an earlier run: the two budget tabs, the Account
\* Balances tab and, when transaction export is enabled, the Transactions
\* tab (if the spreadsheet has one), also when the window holds no
\* transaction.
C10_TabsHoldThisRun ==
    RunSucceeded =>
        /\ BudgetAndAccountTabsHoldThisRun
        /\ config.export_transactions /\ TAB_Transactions \in DOMAIN spreadsheet
           => spreadsheet[TAB_Transactions]
                 = transaction_tab_rows(transaction_title, transaction_data[1])

\* a required variable is not set, or no credentials are given
ConfigurationMissing == missing_vars(settings) # {} \/ no_credentials(settings)

\* credentials are given and what main loads from them is not valid
CredentialsInvalid == ~no_credentials(settings) /\ ~credentials_load(settings)

\* the run has called neither collaborator and is not going to
AbortedBeforeIO == pc \in {"start", "failed"} /\ calls = {}

\* a run with a variable or the credentials missing ends before any call
MissingConfigurationAbortsBeforeIO == ConfigurationMissing => AbortedBeforeIO

\* C11: a run whose configuration is missing or invalid (a required variable
\* not set, no credentials given, or credentials that are not valid) makes
\* no Ledger Source and no Sheet Sink call: it is aborted before any of them.
C11_InvalidConfigurationAbortsBeforeIO ==
    ConfigurationMissing \/ CredentialsInvalid => calls = {}

\* a run has ended with a failure
RunFailed == pc = "failed"

\* the report set of a run is published whole: the two budget tabs, the
\* Account Balances tab and, when transaction export is enabled, the
\* Transactions tab, each with the grid of this run
CompleteReportSet ==
    /\ BudgetAndAccountTabsHoldThisRun
    /\ config.export_transactions
       => /\ TAB_Transactions \in DOMAIN spreadsheet
          /\ spreadsheet[TAB_Transactions]
                = transaction_tab_rows(transaction_title, transaction_data[1])

\* after a run has failed nothing is written in that run
FailedRunWritesNoFurther == [][RunFailed => UNCHANGED spreadsheet]_vars

\* as long as the Sheet Sink has not been called in a run no tab is created,
\* cleared or written: the Ledger Source is read first, so a run that fails
\* in the Ledger Source leaves every tab as it was
LedgerFailureWritesNoTab ==
    [][SheetSink \notin calls' => UNCHANGED spreadsheet]_vars

\* every Ledger Source read is over when the Sheet Sink is called first
LedgerReadsFinishFirst ==
    SheetSink \in calls => ~calls_ledger_source(pc, TRUE) /\ pc \notin {"start", "connect"}

\* C12: a run has no partial success.  A run that succeeds has published the
\* complete set of report tabs, each with its complete grid; after a run has
\* failed nothing further is written in it; and no tab is created, cleared
\* or written before the Ledger Source reads are over, so that a Ledger
\* Source failure leaves every tab unwritten.
C12_NoPartialSuccess ==
    /\ [](RunSucceeded => CompleteReportSet)
    /\ [][/\ RunFailed => UNCHANGED spreadsheet
          /\ SheetSink \notin calls' => UNCHANGED spreadsheet]_vars

====
